---------------------------- MODULE Spec2Model ----------------------------
(***************************************************************************)
(* Extraction-and-publication pipeline: text -> completion service ->      *)
(* validated BoardData -> board platform (board, groups, column, items).   *)
(*                                                                         *)
(* Python strings are modelled as sequences of one-character strings, so   *)
(* that strip / split / join / replace / lower are computed, not assumed.  *)
(***************************************************************************)
EXTENDS Integers, Sequences, FiniteSets, TLC

(***************************************************************************)
(* Bounds of the model.                                                    *)
(***************************************************************************)
MaxTextLen == 8     \* longest input text explored by the chunker
MaxUnits == 1       \* largest per-call unit ceiling (self.max_units)
MaxGroups == 2      \* most group records the completion service emits in a run
MaxItems == 2       \* most item records the completion service emits in a run

MaxKeyLen == 3      \* longest key given to Group alone
MaxBatchItems == 3  \* longest item list given to create_items_batch alone
NL == "\n"
SP == " "

(***************************************************************************)
(* Python string primitives.                                               *)
(***************************************************************************)
IsSpace(c) == c \in {SP, NL}

RECURSIVE lstrip(_)
lstrip(s) == IF s # <<>> /\ IsSpace(Head(s)) THEN lstrip(Tail(s)) ELSE s

RECURSIVE rstrip(_)
rstrip(s) ==
    IF s # <<>> /\ IsSpace(s[Len(s)]) THEN rstrip(SubSeq(s, 1, Len(s) - 1)) ELSE s

\* str.strip()
strip(s) == rstrip(lstrip(s))

\* str.split(sep): always at least one (possibly empty) field
RECURSIVE split_from(_, _, _)
split_from(s, sep, cur) ==
    IF s = <<>> THEN <<cur>>
    ELSE IF Head(s) = sep THEN <<cur>> \o split_from(Tail(s), sep, <<>>)
    ELSE split_from(Tail(s), sep, Append(cur, Head(s)))

split(s, sep) == split_from(s, sep, <<>>)

\* sep.join(parts)
RECURSIVE join(_, _)
join(sep, parts) ==
    IF parts = <<>> THEN <<>>
    ELSE IF Len(parts) = 1 THEN parts[1]
    ELSE parts[1] \o <<sep>> \o join(sep, Tail(parts))

\* str.replace(old, new) for a one-character old and a string new
RECURSIVE replace(_, _, _)
replace(s, old, new) ==
    IF s = <<>> THEN <<>>
    ELSE (IF Head(s) = old THEN new ELSE <<Head(s)>>) \o replace(Tail(s), old, new)

(***************************************************************************)
(* WriterClient: size estimate and chunker.                                *)
(***************************************************************************)
\* mutant of _estimate_units: rounds up
_estimate_units_ceil(t) == (Len(t) + 3) \div 4

_estimate_units(t) == Len(t) \div 4

max_chunk_size(mu) == mu * 3

\* mutant of chunk_loop: the lines left after the loop are not flushed
RECURSIVE chunk_loop_noflush(_, _, _, _, _)
chunk_loop_noflush(lines, mu, chunks_acc, current_chunk, current_size) ==
    IF lines = <<>>
    THEN chunks_acc
    ELSE LET line == Head(lines)
             line_size == Len(line)
             flush == current_size + line_size > max_chunk_size(mu)
                      /\ current_chunk # <<>>
         IN  IF flush
             THEN chunk_loop_noflush(Tail(lines), mu,
                             Append(chunks_acc, join(NL, current_chunk)),
                             <<line>>, line_size)
             ELSE chunk_loop_noflush(Tail(lines), mu, chunks_acc,
                             Append(current_chunk, line),
                             current_size + line_size)

\* the for-loop of _chunk_text over the remaining lines, with its three locals
RECURSIVE chunk_loop(_, _, _, _, _)
chunk_loop(lines, mu, chunks_acc, current_chunk, current_size) ==
    IF lines = <<>>
    THEN IF current_chunk # <<>>
         THEN Append(chunks_acc, join(NL, current_chunk))
         ELSE chunks_acc
    ELSE LET line == Head(lines)
             line_size == Len(line)
             flush == current_size + line_size > max_chunk_size(mu)
                      /\ current_chunk # <<>>
         IN  IF flush
             THEN chunk_loop(Tail(lines), mu,
                             Append(chunks_acc, join(NL, current_chunk)),
                             <<line>>, line_size)
             ELSE chunk_loop(Tail(lines), mu, chunks_acc,
                             Append(current_chunk, line),
                             current_size + line_size)

_chunk_text(t, mu) == chunk_loop(split(strip(t), NL), mu, <<>>, <<>>, 0)


(***************************************************************************)
(* Domain model (models.py).  A construction either fails (ok = FALSE,     *)
(* the pydantic ValidationError) or yields the stored value.               *)
(***************************************************************************)
Alnum == {"a", "b", "A", "B", "i", "1", "U+0130"}

\* str.isalnum(): non-empty and every character alphanumeric
isalnum(s) == s # <<>> /\ \A i \in 1..Len(s) : s[i] \in Alnum

lower_char(c) ==
    CASE c = "A" -> <<"a">>
      [] c = "B" -> <<"b">>
      [] c = "U+0130" -> <<"i", "U+0307">>
      [] OTHER -> <<c>>

\* str.lower()
RECURSIVE lower(_)
lower(s) == IF s = <<>> THEN <<>> ELSE lower_char(Head(s)) \o lower(Tail(s))

\* Group.validate_key
validate_key(v) ==
    IF ~isalnum(replace(v, "_", <<>>))
    THEN [ok |-> FALSE, value |-> v]
    ELSE [ok |-> TRUE, value |-> lower(v)]

\* Group(**raw)
Group(raw) ==
    LET k == validate_key(raw.key)
    IN  [ok |-> k.ok, value |-> [key |-> k.value, name |-> raw.name]]

\* datetime.strptime(v, '%Y-%m-%d') on the date strings of the model:
\* the day number of a well-formed date, -1 for a ValueError
strptime(v) ==
    CASE v = "2025-10-01" -> 1
      [] v = "2025-10-05" -> 5
      [] OTHER -> -1

\* Item.validate_date_format
validate_date_format(v) == strptime(v) # -1

\* Item.validate_end_after_start: skipped when start_date did not validate
validate_end_after_start(v, start_ok, start) ==
    IF start_ok THEN ~(strptime(v) < strptime(start)) ELSE TRUE

\* Item(**raw): both dates well-formed and end not before start
Item(raw) ==
    LET start_ok == validate_date_format(raw.start_date)
        end_ok == validate_date_format(raw.end_date)
                  /\ validate_end_after_start(raw.end_date, start_ok, raw.start_date)
    IN  [ok |-> start_ok /\ end_ok, value |-> raw]

\* mutant of validate_item_groups: the item's key is lowercased before the test
validate_item_groups_lower(items, groups) ==
    LET valid_keys == {groups[i].key : i \in 1..Len(groups)}
    IN  \A j \in 1..Len(items) : lower(items[j].group_key) \in valid_keys

\* BoardData.validate_item_groups: every item's group_key is a stored group key
validate_item_groups(items, groups) ==
    LET valid_keys == {groups[i].key : i \in 1..Len(groups)}
    IN  \A j \in 1..Len(items) : items[j].group_key \in valid_keys

\* BoardData(**result): both fields required, every element validated, then
\* the cross-field validator on items
BoardData(result) ==
    LET gs == [i \in 1..Len(result.groups) |-> Group(result.groups[i])]
        its == [j \in 1..Len(result.items) |-> Item(result.items[j])]
        groups == [i \in 1..Len(gs) |-> gs[i].value]
        items == [j \in 1..Len(its) |-> its[j].value]
        groups_ok == result.has_groups /\ \A i \in 1..Len(gs) : gs[i].ok
        items_ok == result.has_items /\ \A j \in 1..Len(its) : its[j].ok
        refs_ok == groups_ok => validate_item_groups(items, groups)
    IN  [ok |-> groups_ok /\ items_ok /\ refs_ok,
         groups |-> groups, items |-> items]

(***************************************************************************)
(* WriterClient: prompt, completion call, merge.                           *)
(***************************************************************************)
\* _build_extraction_prompt: the fixed instructions, the partial-chunk note
\* when is_partial, and the input text
_build_extraction_prompt(t, is_partial) == [input |-> t, partial_note |-> is_partial]

\* mutant of _call_writer_api: the status code is not looked at
_call_writer_api_nostatus(resp) ==
    [ok |-> resp.transport_ok /\ resp.choices = "present" /\ resp.content_is_json,
     value |-> resp.content]

\* _call_writer_api on a response: raises (ok = FALSE) on a transport error,
\* a non-200 status, missing or empty choices, or content that is not JSON
_call_writer_api(resp) ==
    [ok |-> resp.transport_ok /\ resp.status_code = 200
            /\ resp.choices = "present" /\ resp.content_is_json,
     value |-> resp.content]

\* result.get("groups", []) / result.get("items", [])
get_groups(result) == IF result.has_groups THEN result.groups ELSE <<>>
get_items(result) == IF result.has_items THEN result.items ELSE <<>>

\* key in merged_groups (the dict keeps insertion order; keys are the raw keys)
key_in(merged, key) == \E i \in 1..Len(merged) : merged[i].key = key

\* mutant of merge_groups: a later definition of a key overwrites the entry
RECURSIVE merge_groups_last(_, _)
merge_groups_last(groups, merged) ==
    IF groups = <<>> THEN merged
    ELSE merge_groups_last(Tail(groups),
            IF key_in(merged, Head(groups).key)
            THEN [i \in 1..Len(merged) |->
                    IF merged[i].key = Head(groups).key THEN Head(groups) ELSE merged[i]]
            ELSE Append(merged, Head(groups)))

\* inner loop of _merge_results over one result's groups
RECURSIVE merge_groups(_, _)
merge_groups(groups, merged) ==
    IF groups = <<>> THEN merged
    ELSE merge_groups(Tail(groups),
                      IF key_in(merged, Head(groups).key)
                      THEN merged ELSE Append(merged, Head(groups)))

\* outer loop of _merge_results
RECURSIVE merge_loop(_, _, _)
merge_loop(rs, merged_groups, all_items) ==
    IF rs = <<>>
    THEN [has_groups |-> TRUE, groups |-> merged_groups,
          has_items |-> TRUE, items |-> all_items]
    ELSE merge_loop(Tail(rs),
                    merge_groups(get_groups(Head(rs)), merged_groups),
                    all_items \o get_items(Head(rs)))

_merge_results(rs) == merge_loop(rs, <<>>, <<>>)

(***************************************************************************)
(* MondayClient: one request/response, the batch builder.                  *)
(***************************************************************************)
\* mutant of _run_query: a body that has a "data" member is returned without
\* looking at "errors"
_run_query_data_first(resp) ==
    [ok |-> resp.transport_ok /\ resp.is_json /\ resp.data # "absent",
     data |-> resp.data, id |-> resp.id]

\* _run_query on a response: raises (ok = FALSE) when the request fails, the
\* body is not JSON, the body has an "errors" member (whatever its value and
\* whatever the HTTP status) or has no "data" member; otherwise returns data
_run_query(resp) ==
    [ok |-> resp.transport_ok /\ resp.is_json
            /\ resp.errors = "absent" /\ resp.data # "absent",
     data |-> resp.data, id |-> resp.id]

\* result["create_board"]["id"] / result["create_group"]["id"]
has_id(r) == r.ok /\ r.data = "with_id"

\* json.dumps({"timeline": {"from": start, "to": end}})
json_dumps_column_values(start, end) ==
    <<"{", "\"", "timeline", "\"", ":", " ", "{",
      "\"", "from", "\"", ":", " ", "\"", start, "\"", ",", " ",
      "\"", "to", "\"", ":", " ", "\"", end, "\"", "}", "}">>

\* column_values_json.replace('\\', '\\\\').replace('"', '\\"')
escape_column_values(s) == replace(replace(s, "\\", <<"\\", "\\">>), "\"", <<"\\", "\"">>)

\* item.name.replace('"', '\\"')
escape_item_name(s) == replace(s, "\"", <<"\\", "\"">>)

\* key in group_ids
in_map(group_ids, key) == key \in DOMAIN group_ids

\* mutant of map_put: the map is rebound to the new entry alone
map_put_replace(group_ids, key, id) == [k \in {key} |-> id]

\* group_ids[key] = group_id
map_put(group_ids, key, id) ==
    [k \in (DOMAIN group_ids) \cup {key} |-> IF k = key THEN id ELSE group_ids[k]]

\* the text the f-string of create_items_batch gives one sub-operation, as
\* its sequence of tokens and characters (white space left out)
sub_operation_text(op) ==
    <<"item_", ToString(op.alias), ":", "create_item", "(",
      "board_id", ":", ToString(op.board_id), ",",
      "group_id", ":", "\"", ToString(op.group_id), "\"", ",",
      "item_name", ":", "\"">> \o op.item_name \o <<"\"", ",",
      "column_values", ":", "\"">> \o op.column_values \o <<"\"",
      ")", "{", "id", "}">>

\* mutant of batch_loop: an unknown group key ends the loop (break for continue)
RECURSIVE batch_loop_break(_, _, _, _)
batch_loop_break(items, idx, bid, group_ids) ==
    IF items = <<>> THEN <<>>
    ELSE LET item == Head(items)
         IN  IF ~in_map(group_ids, item.group_key)
             THEN <<>>
             ELSE <<[alias |-> idx,
                     board_id |-> bid,
                     group_id |-> group_ids[item.group_key],
                     item_name |-> escape_item_name(item.name),
                     column_values |-> escape_column_values(
                         json_dumps_column_values(item.start_date, item.end_date))]>>
                  \o batch_loop_break(Tail(items), idx + 1, bid, group_ids)

\* mutant of batch_loop: the alias number advances only on an emitted item
RECURSIVE batch_loop_renumber(_, _, _, _)
batch_loop_renumber(items, idx, bid, group_ids) ==
    IF items = <<>> THEN <<>>
    ELSE LET item == Head(items)
         IN  IF ~in_map(group_ids, item.group_key)
             THEN batch_loop_renumber(Tail(items), idx, bid, group_ids)
             ELSE <<[alias |-> idx,
                     board_id |-> bid,
                     group_id |-> group_ids[item.group_key],
                     item_name |-> escape_item_name(item.name),
                     column_values |-> escape_column_values(
                         json_dumps_column_values(item.start_date, item.end_date))]>>
                  \o batch_loop_renumber(Tail(items), idx + 1, bid, group_ids)

\* the for-loop of create_items_batch from 0-based position idx on: one aliased
\* sub-operation per item whose group_key is in group_ids, the others skipped
RECURSIVE batch_loop(_, _, _, _)
batch_loop(items, idx, bid, group_ids) ==
    IF items = <<>> THEN <<>>
    ELSE LET item == Head(items)
             rest == batch_loop(Tail(items), idx + 1, bid, group_ids)
         IN  IF ~in_map(group_ids, item.group_key)
             THEN rest
             ELSE <<[alias |-> idx,
                     board_id |-> bid,
                     group_id |-> group_ids[item.group_key],
                     item_name |-> escape_item_name(item.name),
                     column_values |-> escape_column_values(
                         json_dumps_column_values(item.start_date, item.end_date))]>>
                  \o rest

\* the mutation create_items_batch submits: its aliased sub-operations
build_batch(bid, items, group_ids) == batch_loop(items, 0, bid, group_ids)

(***************************************************************************)
(* Inputs of the model.                                                    *)
(***************************************************************************)
Rep(c, n) == [i \in 1..n |-> c]
SeqsUpTo(S, n) == UNION {[1..k -> S] : k \in 0..n}

\* every text of at most MaxTextLen characters over a letter, newline, space
AllTexts == SeqsUpTo({"a", NL, SP}, MaxTextLen)

\* texts fed through the whole pipeline, around the ceiling mu: estimate = mu
\* (one line), estimate = mu + 1 as two lines that do not fit one chunk, and
\* as short lines padded with blank lines and whitespace
SampleTexts(mu) ==
    { Rep("a", 4 * mu + 3),
      Rep("a", 3 * mu) \o <<NL>> \o Rep("a", mu + 3),
      <<SP, "a">> \o Rep(NL, 4 * mu) \o <<"a", NL>> }

K_a == <<"a">>
K_A == <<"A">>
K_b == <<"b">>

\* group records the completion service may emit
GroupRecs ==
    { [key |-> K_a, name |-> "First"], [key |-> K_a, name |-> "Second"],
      [key |-> K_A, name |-> "Second"], [key |-> K_b, name |-> "First"] }

\* item records the completion service may emit
ItemRecs ==
    { [group_key |-> k, name |-> <<"i", "1">>,
       start_date |-> "2025-10-01", end_date |-> "2025-10-05"] : k \in {K_a, K_A, K_b} }
    \cup
    { [group_key |-> K_a, name |-> <<"i", "1">>,
       start_date |-> "2025-10-05", end_date |-> "2025-10-01"] }

Min(a, b) == IF a < b THEN a ELSE b

\* JSON contents the completion service may return with at most gc groups and
\* ic items: both members present, or one of them missing (the other then
\* holding at most one record)
Contents(gc, ic) ==
    { [has_groups |-> TRUE, groups |-> g, has_items |-> TRUE, items |-> i] :
        g \in SeqsUpTo(GroupRecs, gc), i \in SeqsUpTo(ItemRecs, ic) }
    \cup { [has_groups |-> FALSE, groups |-> <<>>, has_items |-> TRUE, items |-> i] :
        i \in SeqsUpTo(ItemRecs, Min(ic, 1)) }
    \cup { [has_groups |-> TRUE, groups |-> g, has_items |-> FALSE, items |-> <<>>] :
        g \in SeqsUpTo(GroupRecs, Min(gc, 1)) }

EmptyContent == [has_groups |-> TRUE, groups |-> <<>>, has_items |-> TRUE, items |-> <<>>]

\* responses of the completion service
WriterResponses(gc, ic) ==
    { [transport_ok |-> TRUE, status_code |-> 200, choices |-> "present",
       content_is_json |-> TRUE, content |-> c] : c \in Contents(gc, ic) }
    \cup
    { [transport_ok |-> t, status_code |-> st, choices |-> ch,
       content_is_json |-> j, content |-> EmptyContent] :
        t \in BOOLEAN, st \in {200, 500}, ch \in {"missing", "empty", "present"},
        j \in BOOLEAN }

\* remote identifiers: the platform gives every object it creates a new one
NoId == <<>>
BoardId == <<"b", 1>>
GroupId(n) == <<"g", n>>

\* responses of the board platform to a request that would create object id
MondayResponses(id) ==
    [transport_ok : BOOLEAN, is_json : BOOLEAN, status_code : {200, 500},
     errors : {"absent", "empty", "nonempty"},
     data : {"absent", "without_id", "with_id"}, id : {id}]

(***************************************************************************)
(* State of one pipeline run.  An optional value is <<>> or <<v>>.         *)
(***************************************************************************)
VARIABLES
    env,            \* os.environ: each credential absent (<<>>) or <<value>>
    clients,        \* the API clients constructed so far
    entry,          \* the entry point the run was started through
    file_exists,    \* whether the input path exists (file entry points)
    text,           \* the raw text (the argument, or the file's content)
    max_units,      \* WriterClient.max_units
    pc,             \* position of the single thread of control
    chunks,         \* extract_from_text: chunks
    results,        \* extract_from_text: results
    result,         \* extract_from_text: result (optional)
    board_data,     \* the validated BoardData (optional)
    board_id,       \* create_board_from_data: board_id (optional)
    group_ids,      \* create_groups: group_ids, key -> remote id
    gi,             \* create_groups: 1-based position of the loop
    published,      \* value returned by create_board_from_data (optional)
    ret,            \* value returned by the entry point (optional)
    outcome,        \* "running", "returned", or the exception raised
    writer_calls,   \* history of completion-service calls
    monday_calls,   \* history of board-platform calls
    response        \* the response received in the step just taken (optional)

vars == <<env, clients, entry, file_exists, text, max_units, pc, chunks, results, result,
          board_data, board_id, group_ids, gi, published, ret, outcome,
          writer_calls, monday_calls, response>>

BoardName == "Board"

\* os.getenv(name, default)
getenv(e, name, default) == IF e[name] = <<>> THEN default ELSE e[name][1]

\* Config.WRITER_API_KEY / Config.MONDAY_API_KEY, read once at import
WRITER_API_KEY == getenv(env, "WRITER_API_KEY", "")
MONDAY_API_KEY == getenv(env, "MONDAY_API_KEY", "")

\* mutant of validate: only the completion-service key is checked
validate_writer_only == IF WRITER_API_KEY = "" THEN "ValueError" ELSE "ok"

\* Config.validate: the exception it raises, or "ok"
validate ==
    IF WRITER_API_KEY = "" THEN "ValueError"
    ELSE IF MONDAY_API_KEY = "" THEN "ValueError"
    ELSE "ok"

\* both credentials set and both clients constructed
Constructed ==
    /\ env = [WRITER_API_KEY |-> <<"w">>, MONDAY_API_KEY |-> <<"m">>]
    /\ clients = {"WriterClient", "MondayClient"}

Locals0 ==
    /\ Constructed
    /\ chunks = <<>>
    /\ results = <<>>
    /\ result = <<>>
    /\ board_data = <<>>
    /\ board_id = <<>>
    /\ group_ids = <<>>
    /\ gi = 1
    /\ published = <<>>
    /\ ret = <<>>
    /\ outcome = "running"
    /\ writer_calls = <<>>
    /\ monday_calls = <<>>
    /\ response = <<>>

\* a pipeline constructed with both credentials, about to be run
Init ==
    /\ max_units = MaxUnits
    /\ entry \in {"run_from_text", "run_from_text_file", "run_from_csv"}
    /\ file_exists \in (IF entry = "run_from_text" THEN {TRUE} ELSE BOOLEAN)
    /\ text \in (IF file_exists THEN SampleTexts(max_units) ELSE {<<>>})
    /\ pc = "start"
    /\ Locals0

\* the last call of a history gets its outcome
SetLast(calls, status, id) ==
    [calls EXCEPT ![Len(calls)] = [@ EXCEPT !.status = status, !.id = id]]

WriterCall(prompt) == [prompt |-> prompt, status |-> "pending", id |-> NoId]

MondayCall(op, name, g, subops) ==
    [op |-> op, name |-> name, group |-> g, subops |-> subops,
     status |-> "pending", id |-> NoId]

\* an exception leaves the entry point: every frame's locals end and
\* nothing is returned
Raise(exc) ==
    /\ outcome' = exc
    /\ pc' = "done"
    /\ chunks' = <<>>
    /\ results' = <<>>
    /\ result' = <<>>
    /\ board_data' = <<>>
    /\ board_id' = <<>>
    /\ group_ids' = <<>>
    /\ gi' = 1

\* records the completion service has emitted so far in this run
RECURSIVE emitted_groups(_)
emitted_groups(rs) ==
    IF rs = <<>> THEN 0 ELSE Len(Head(rs).groups) + emitted_groups(Tail(rs))

RECURSIVE emitted_items(_)
emitted_items(rs) ==
    IF rs = <<>> THEN 0 ELSE Len(Head(rs).items) + emitted_items(Tail(rs))

\* responses the completion service may give to the next call of the run
NextWriterResponses ==
    WriterResponses(MaxGroups - emitted_groups(results),
                    MaxItems - emitted_items(results))

(***************************************************************************)
(* TimelinePipeline entry points and WriterClient.extract_from_csv.        *)
(***************************************************************************)
RunFromText ==
    /\ pc = "start" /\ entry = "run_from_text"
    /\ pc' = "extract_from_text"
    /\ response' = <<>>
    /\ UNCHANGED <<env, clients, entry, file_exists, text, max_units, chunks, results, result,
                   board_data, board_id, group_ids, gi, published, ret, outcome,
                   writer_calls, monday_calls>>

RunFromTextFile ==
    /\ pc = "start" /\ entry = "run_from_text_file"
    /\ IF ~file_exists
       THEN Raise("FileNotFoundError")
       ELSE /\ pc' = "extract_from_text"
            /\ UNCHANGED <<chunks, results, result, board_data, board_id,
                           group_ids, gi, outcome>>
    /\ response' = <<>>
    /\ UNCHANGED <<env, clients, entry, file_exists, text, max_units, published, ret,
                   writer_calls, monday_calls>>

RunFromCsv ==
    /\ pc = "start" /\ entry = "run_from_csv"
    /\ pc' = "extract_from_csv"
    /\ response' = <<>>
    /\ UNCHANGED <<env, clients, entry, file_exists, text, max_units, chunks, results, result,
                   board_data, board_id, group_ids, gi, published, ret, outcome,
                   writer_calls, monday_calls>>

\* mutant of ExtractFromCsv: the path is not checked, a missing file reads as
\* empty text
ExtractFromCsv_nocheck ==
    /\ pc = "extract_from_csv"
    /\ pc' = "extract_from_text"
    /\ response' = <<>>
    /\ UNCHANGED <<env, clients, entry, file_exists, text, max_units, chunks, results, result,
                   board_data, board_id, group_ids, gi, published, ret, outcome,
                   writer_calls, monday_calls>>

ExtractFromCsv ==
    /\ pc = "extract_from_csv"
    /\ IF ~file_exists
       THEN Raise("FileNotFoundError")
       ELSE /\ pc' = "extract_from_text"
            /\ UNCHANGED <<chunks, results, result, board_data, board_id,
                           group_ids, gi, outcome>>
    /\ response' = <<>>
    /\ UNCHANGED <<env, clients, entry, file_exists, text, max_units, published, ret,
                   writer_calls, monday_calls>>

(***************************************************************************)
(* WriterClient.extract_from_text.                                         *)
(***************************************************************************)
\* entry of extract_from_text: the single path builds its prompt and issues
\* its call; the chunked path chunks the text
ExtractFromText ==
    /\ pc = "extract_from_text"
    /\ IF _estimate_units(text) <= max_units
       THEN /\ writer_calls' =
                  Append(writer_calls, WriterCall(_build_extraction_prompt(text, FALSE)))
            /\ pc' = "single_call"
            /\ UNCHANGED chunks
       ELSE /\ chunks' = _chunk_text(text, max_units)
            /\ pc' = "chunk_loop"
            /\ UNCHANGED writer_calls
    /\ response' = <<>>
    /\ UNCHANGED <<env, clients, entry, file_exists, text, max_units, results, result,
                   board_data, board_id, group_ids, gi, published, ret, outcome,
                   monday_calls>>

\* the single call returns or raises
SingleCallReturn ==
    /\ pc = "single_call"
    /\ \E resp \in NextWriterResponses :
         LET r == _call_writer_api(resp)
         IN  IF ~r.ok
             THEN /\ Raise("WriterError")
                  /\ writer_calls' = SetLast(writer_calls, "failed", NoId)
                  /\ response' = <<resp>>
             ELSE /\ result' = <<r.value>>
                  /\ writer_calls' = SetLast(writer_calls, "returned", NoId)
                  /\ response' = <<resp>>
                  /\ pc' = "validate"
                  /\ UNCHANGED <<chunks, results, board_data, board_id, group_ids, gi, outcome>>
    /\ UNCHANGED <<env, clients, entry, file_exists, text, max_units, published, ret,
                   monday_calls>>

\* one iteration of the chunk loop issues the call for the next chunk
ChunkCall ==
    /\ pc = "chunk_loop"
    /\ Len(results) < Len(chunks)
    /\ writer_calls' =
           Append(writer_calls,
                  WriterCall(_build_extraction_prompt(chunks[Len(results) + 1], TRUE)))
    /\ pc' = "chunk_call"
    /\ response' = <<>>
    /\ UNCHANGED <<env, clients, entry, file_exists, text, max_units, chunks, results, result,
                   board_data, board_id, group_ids, gi, published, ret, outcome,
                   monday_calls>>

\* the chunk's call returns (its result is appended) or raises
ChunkCallReturn ==
    /\ pc = "chunk_call"
    /\ \E resp \in NextWriterResponses :
         LET r == _call_writer_api(resp)
         IN  IF ~r.ok
             THEN /\ Raise("WriterError")
                  /\ writer_calls' = SetLast(writer_calls, "failed", NoId)
                  /\ response' = <<resp>>
             ELSE /\ results' = Append(results, r.value)
                  /\ writer_calls' = SetLast(writer_calls, "returned", NoId)
                  /\ response' = <<resp>>
                  /\ pc' = "chunk_loop"
                  /\ UNCHANGED <<chunks, result, board_data, board_id, group_ids, gi, outcome>>
    /\ UNCHANGED <<env, clients, entry, file_exists, text, max_units, published, ret,
                   monday_calls>>

\* after the last chunk the results are merged
MergeResults ==
    /\ pc = "chunk_loop"
    /\ Len(results) = Len(chunks)
    /\ result' = <<_merge_results(results)>>
    /\ pc' = "validate"
    /\ response' = <<>>
    /\ UNCHANGED <<env, clients, entry, file_exists, text, max_units, chunks, results,
                   board_data, board_id, group_ids, gi, published, ret, outcome,
                   writer_calls, monday_calls>>

\* board_data = BoardData(**result): raises, or extract_from_text is about to
\* return the Board
ValidateBoard ==
    /\ pc = "validate"
    /\ LET b == BoardData(result[1])
       IN  IF ~b.ok
           THEN Raise("ValidationError")
           ELSE /\ board_data' = <<[groups |-> b.groups, items |-> b.items]>>
                /\ pc' = "extract_return"
                /\ UNCHANGED <<chunks, results, result, board_id, group_ids, gi, outcome>>
    /\ response' = <<>>
    /\ UNCHANGED <<env, clients, entry, file_exists, text, max_units, published, ret,
                   writer_calls, monday_calls>>

\* extract_from_text returns board_data to the entry point (its locals end),
\* which calls create_board_from_data
ExtractReturn ==
    /\ pc = "extract_return"
    /\ chunks' = <<>>
    /\ results' = <<>>
    /\ result' = <<>>
    /\ pc' = "create_board"
    /\ response' = <<>>
    /\ UNCHANGED <<env, clients, entry, file_exists, text, max_units, board_data, board_id,
                   group_ids, gi, published, ret, outcome, writer_calls,
                   monday_calls>>

(***************************************************************************)
(* MondayClient.create_board_from_data and its four steps.                 *)
(***************************************************************************)
board == board_data[1]

\* step 1, create_board: the request is issued
CreateBoard ==
    /\ pc = "create_board"
    /\ monday_calls' = Append(monday_calls, MondayCall("create_board", BoardName, 0, <<>>))
    /\ pc' = "create_board_wait"
    /\ response' = <<>>
    /\ UNCHANGED <<env, clients, entry, file_exists, text, max_units, chunks, results, result,
                   board_data, board_id, group_ids, gi, published, ret, outcome,
                   writer_calls>>

\* create_board: the response yields the board id, or the call raises
CreateBoardReturn ==
    /\ pc = "create_board_wait"
    /\ \E resp \in MondayResponses(BoardId) :
         LET r == _run_query(resp)
         IN  IF ~has_id(r)
             THEN /\ Raise("MondayError")
                  /\ monday_calls' = SetLast(monday_calls, "failed", NoId)
                  /\ response' = <<resp>>
             ELSE /\ board_id' = <<r.id>>
                  /\ monday_calls' = SetLast(monday_calls, "returned", r.id)
                  /\ response' = <<resp>>
                  /\ group_ids' = <<>>
                  /\ gi' = 1
                  /\ pc' = "create_groups"
                  /\ UNCHANGED <<chunks, results, result, board_data, outcome>>
    /\ UNCHANGED <<env, clients, entry, file_exists, text, max_units, published, ret,
                   writer_calls>>

\* step 2, create_groups: one iteration issues the request for the next group
CreateGroup ==
    /\ pc = "create_groups"
    /\ gi <= Len(board.groups)
    /\ monday_calls' =
           Append(monday_calls, MondayCall("create_group", board.groups[gi].name, gi, <<>>))
    /\ pc' = "create_group_wait"
    /\ response' = <<>>
    /\ UNCHANGED <<env, clients, entry, file_exists, text, max_units, chunks, results, result,
                   board_data, board_id, group_ids, gi, published, ret, outcome,
                   writer_calls>>

\* mutant of CreateGroupReturn: a failed group is logged and skipped
CreateGroupReturn_skip ==
    /\ pc = "create_group_wait"
    /\ \E resp \in MondayResponses(GroupId(gi)) :
         LET r == _run_query(resp)
         IN  /\ group_ids' = IF has_id(r)
                             THEN map_put(group_ids, board.groups[gi].key, r.id)
                             ELSE group_ids
             /\ monday_calls' = IF has_id(r)
                                THEN SetLast(monday_calls, "returned", r.id)
                                ELSE SetLast(monday_calls, "failed", NoId)
             /\ response' = <<resp>>
             /\ gi' = gi + 1
             /\ pc' = "create_groups"
    /\ UNCHANGED <<env, clients, entry, file_exists, text, max_units, chunks, results, result,
                   board_data, board_id, published, ret, outcome, writer_calls>>

\* create_groups: the response's id is recorded under the group's key, or
\* the call raises
CreateGroupReturn ==
    /\ pc = "create_group_wait"
    /\ \E resp \in MondayResponses(GroupId(gi)) :
         LET r == _run_query(resp)
         IN  IF ~has_id(r)
             THEN /\ Raise("MondayError")
                  /\ monday_calls' = SetLast(monday_calls, "failed", NoId)
                  /\ response' = <<resp>>
             ELSE /\ group_ids' = map_put(group_ids, board.groups[gi].key, r.id)
                  /\ monday_calls' = SetLast(monday_calls, "returned", r.id)
                  /\ response' = <<resp>>
                  /\ gi' = gi + 1
                  /\ pc' = "create_groups"
                  /\ UNCHANGED <<chunks, results, result, board_data, board_id, outcome>>
    /\ UNCHANGED <<env, clients, entry, file_exists, text, max_units, published, ret,
                   writer_calls>>

\* mutant of CreateTimelineColumn: does not wait for the group loop to end
CreateTimelineColumn_early ==
    /\ pc = "create_groups"
    /\ monday_calls' = Append(monday_calls, MondayCall("create_column", "Timeline", 0, <<>>))
    /\ pc' = "create_column_wait"
    /\ response' = <<>>
    /\ UNCHANGED <<env, clients, entry, file_exists, text, max_units, chunks, results, result,
                   board_data, board_id, group_ids, gi, published, ret, outcome,
                   writer_calls>>

\* step 3, create_timeline_column, once the group loop has ended: the
\* request is issued
CreateTimelineColumn ==
    /\ pc = "create_groups"
    /\ gi > Len(board.groups)
    /\ monday_calls' = Append(monday_calls, MondayCall("create_column", "Timeline", 0, <<>>))
    /\ pc' = "create_column_wait"
    /\ response' = <<>>
    /\ UNCHANGED <<env, clients, entry, file_exists, text, max_units, chunks, results, result,
                   board_data, board_id, group_ids, gi, published, ret, outcome,
                   writer_calls>>

\* create_timeline_column: the response's data is not read
CreateTimelineColumnReturn ==
    /\ pc = "create_column_wait"
    /\ \E resp \in MondayResponses(NoId) :
         LET r == _run_query(resp)
         IN  IF ~r.ok
             THEN /\ Raise("MondayError")
                  /\ monday_calls' = SetLast(monday_calls, "failed", NoId)
                  /\ response' = <<resp>>
             ELSE /\ monday_calls' = SetLast(monday_calls, "returned", NoId)
                  /\ response' = <<resp>>
                  /\ pc' = "create_items"
                  /\ UNCHANGED <<chunks, results, result, board_data, board_id,
                                 group_ids, gi, outcome>>
    /\ UNCHANGED <<env, clients, entry, file_exists, text, max_units, published, ret,
                   writer_calls>>

\* mutant of CreateItemsBatch: a batch without sub-operations is not submitted
CreateItemsBatch_skip_empty ==
    /\ pc = "create_items"
    /\ IF build_batch(board_id[1], board.items, group_ids) = <<>>
       THEN /\ published' = <<[board_id |-> board_id[1], group_ids |-> group_ids]>>
            /\ pc' = "pipeline_return"
            /\ UNCHANGED monday_calls
       ELSE /\ monday_calls' =
                  Append(monday_calls,
                         MondayCall("create_items", "", 0,
                                    build_batch(board_id[1], board.items, group_ids)))
            /\ pc' = "create_items_wait"
            /\ UNCHANGED published
    /\ response' = <<>>
    /\ UNCHANGED <<env, clients, entry, file_exists, text, max_units, chunks,
                   results, result, board_data, board_id, group_ids, gi, ret,
                   outcome, writer_calls>>

\* step 4, create_items_batch: the batch is built and submitted in one request
CreateItemsBatch ==
    /\ pc = "create_items"
    /\ monday_calls' =
           Append(monday_calls,
                  MondayCall("create_items", "", 0,
                             build_batch(board_id[1], board.items, group_ids)))
    /\ pc' = "create_items_wait"
    /\ response' = <<>>
    /\ UNCHANGED <<env, clients, entry, file_exists, text, max_units, chunks, results, result,
                   board_data, board_id, group_ids, gi, published, ret, outcome,
                   writer_calls>>

\* create_items_batch: the response's data is not read;
\* create_board_from_data then returns (board_id, group_ids)
CreateItemsBatchReturn ==
    /\ pc = "create_items_wait"
    /\ \E resp \in MondayResponses(NoId) :
         LET r == _run_query(resp)
         IN  IF ~r.ok
             THEN /\ Raise("MondayError")
                  /\ monday_calls' = SetLast(monday_calls, "failed", NoId)
                  /\ response' = <<resp>>
                  /\ UNCHANGED published
             ELSE /\ monday_calls' = SetLast(monday_calls, "returned", NoId)
                  /\ response' = <<resp>>
                  /\ published' = <<[board_id |-> board_id[1], group_ids |-> group_ids]>>
                  /\ pc' = "pipeline_return"
                  /\ UNCHANGED <<chunks, results, result, board_data, board_id,
                                 group_ids, gi, outcome>>
    /\ UNCHANGED <<env, clients, entry, file_exists, text, max_units, ret, writer_calls>>

\* the entry point unpacks the pair and returns it
PipelineReturn ==
    /\ pc = "pipeline_return"
    /\ ret' = published
    /\ outcome' = "returned"
    /\ pc' = "done"
    /\ response' = <<>>
    /\ UNCHANGED <<env, clients, entry, file_exists, text, max_units, chunks, results, result,
                   board_data, board_id, group_ids, gi, published, writer_calls,
                   monday_calls>>

Next ==
    \/ RunFromText
    \/ RunFromTextFile
    \/ RunFromCsv
    \/ ExtractFromCsv
    \/ ExtractFromText
    \/ SingleCallReturn
    \/ ChunkCall
    \/ ChunkCallReturn
    \/ MergeResults
    \/ ValidateBoard
    \/ ExtractReturn
    \/ CreateBoard
    \/ CreateBoardReturn
    \/ CreateGroup
    \/ CreateGroupReturn
    \/ CreateTimelineColumn
    \/ CreateTimelineColumnReturn
    \/ CreateItemsBatch
    \/ CreateItemsBatchReturn
    \/ PipelineReturn

Spec == Init /\ [][Next]_vars

(***************************************************************************)
(* create_items_batch alone, on any item list and any group-id map.        *)
(***************************************************************************)
\* item names: plain, quoted, ending in a backslash, backslash then quote
BatchNames ==
    { <<"i", "1">>, <<"\"", "a", "\"">>, <<"a", "\\">>, <<"\\", "\"">> }

\* Item objects a caller may pass
BatchItemRecs ==
    { [group_key |-> k, name |-> n,
       start_date |-> "2025-10-01", end_date |-> "2025-10-05"] :
        k \in {K_a, K_b}, n \in BatchNames }

\* group-id maps a caller may pass: any subset of the keys, each with its id
GroupIdMaps ==
    { [k \in S |-> IF k = K_a THEN GroupId(1) ELSE GroupId(2)] :
        S \in SUBSET {K_a, K_b} }

\* create_items_batch(board_id, items, group_ids) about to run; board_data
\* carries the items argument
InitBatch ==
    /\ Constructed
    /\ max_units = MaxUnits
    /\ entry = "create_items_batch"
    /\ file_exists = TRUE
    /\ text = <<>>
    /\ pc = "create_items"
    /\ chunks = <<>>
    /\ results = <<>>
    /\ result = <<>>
    /\ board_data \in { <<[groups |-> <<>>, items |-> its]>> :
                           its \in SeqsUpTo(BatchItemRecs, MaxBatchItems) }
    /\ board_id = <<BoardId>>
    /\ group_ids \in GroupIdMaps
    /\ gi = 1
    /\ published = <<>>
    /\ ret = <<>>
    /\ outcome = "running"
    /\ writer_calls = <<>>
    /\ monday_calls = <<>>
    /\ response = <<>>

NextBatch ==
    \/ CreateItemsBatch
    \/ CreateItemsBatchReturn

SpecBatch == InitBatch /\ [][NextBatch]_vars

(***************************************************************************)
(* A process run from the construction of the pipeline on.                 *)
(***************************************************************************)
\* environments: each credential absent, empty or set
Envs ==
    [WRITER_API_KEY : {<<>>, <<"">>, <<"w">>},
     MONDAY_API_KEY : {<<>>, <<"">>, <<"m">>}]

InitStartup ==
    /\ env \in Envs
    /\ clients = {}
    /\ max_units = MaxUnits
    /\ entry \in {"run_from_text", "run_from_text_file", "run_from_csv"}
    /\ file_exists \in (IF entry = "run_from_text" THEN {TRUE} ELSE BOOLEAN)
    /\ text \in (IF file_exists THEN SampleTexts(max_units) ELSE {<<>>})
    /\ pc = "__init__"
    /\ chunks = <<>>
    /\ results = <<>>
    /\ result = <<>>
    /\ board_data = <<>>
    /\ board_id = <<>>
    /\ group_ids = <<>>
    /\ gi = 1
    /\ published = <<>>
    /\ ret = <<>>
    /\ outcome = "running"
    /\ writer_calls = <<>>
    /\ monday_calls = <<>>
    /\ response = <<>>

\* TimelinePipeline.__init__ (and get_clients): Config.validate(), then the
\* two clients; the constructors issue no request
Construct ==
    /\ pc = "__init__"
    /\ IF validate # "ok"
       THEN /\ outcome' = validate
            /\ pc' = "done"
            /\ UNCHANGED clients
       ELSE /\ clients' = {"WriterClient", "MondayClient"}
            /\ pc' = "start"
            /\ UNCHANGED outcome
    /\ response' = <<>>
    /\ UNCHANGED <<env, entry, file_exists, text, max_units, chunks, results,
                   result, board_data, board_id, group_ids, gi, published, ret,
                   writer_calls, monday_calls>>

NextStartup ==
    \/ Construct
    \/ Next

SpecStartup == InitStartup /\ [][NextStartup]_vars

(***************************************************************************)
(* Publication reached through a pipeline run or by calling                *)
(* create_items_batch directly.                                            *)
(***************************************************************************)
InitPublish == Init \/ InitBatch

SpecPublish == InitPublish /\ [][Next]_vars

(***************************************************************************)
(* Group alone, on any key up to MaxKeyLen.                                *)
(***************************************************************************)
\* characters of a key: letters of both cases, a digit, the underscore, a
\* hyphen, a space, and LATIN CAPITAL LETTER I WITH DOT ABOVE
KeyChars == {"a", "A", "1", "_", "-", SP, "U+0130"}

\* Group(key=..., name=...) about to be constructed; result carries the
\* keyword arguments
InitGroup ==
    /\ Constructed
    /\ max_units = MaxUnits
    /\ entry = "Group"
    /\ file_exists = TRUE
    /\ text = <<>>
    /\ pc = "Group"
    /\ chunks = <<>>
    /\ results = <<>>
    /\ result \in { <<[key |-> k, name |-> "First"]>> : k \in SeqsUpTo(KeyChars, MaxKeyLen) }
    /\ board_data = <<>>
    /\ board_id = <<>>
    /\ group_ids = <<>>
    /\ gi = 1
    /\ published = <<>>
    /\ ret = <<>>
    /\ outcome = "running"
    /\ writer_calls = <<>>
    /\ monday_calls = <<>>
    /\ response = <<>>

\* the constructor returns the Group or raises the validation error
GroupConstruct ==
    /\ pc = "Group"
    /\ LET g == Group(result[1])
       IN  /\ ret' = IF g.ok THEN <<g.value>> ELSE <<>>
           /\ outcome' = IF g.ok THEN "returned" ELSE "ValidationError"
    /\ pc' = "done"
    /\ response' = <<>>
    /\ UNCHANGED <<env, clients, entry, file_exists, text, max_units, chunks, results, result,
                   board_data, board_id, group_ids, gi, published, writer_calls,
                   monday_calls>>

NextGroup == GroupConstruct

SpecGroup == InitGroup /\ [][NextGroup]_vars

(***************************************************************************)
(* The chunker alone, on every text up to MaxTextLen.                      *)
(***************************************************************************)
InitChunk ==
    /\ max_units \in 1..MaxUnits
    /\ entry = "_chunk_text"
    /\ file_exists = TRUE
    /\ text \in AllTexts
    /\ pc = "_chunk_text"
    /\ Locals0

ChunkText ==
    /\ pc = "_chunk_text"
    /\ chunks' = _chunk_text(text, max_units)
    /\ pc' = "chunked"
    /\ response' = <<>>
    /\ UNCHANGED <<env, clients, entry, file_exists, text, max_units, results, result,
                   board_data, board_id, group_ids, gi, published, ret, outcome,
                   writer_calls, monday_calls>>

NextChunk == ChunkText

SpecChunk == InitChunk /\ [][NextChunk]_vars

(***************************************************************************)
(* Properties.                                                             *)
(***************************************************************************)
Pending(calls) == {i \in 1..Len(calls) : calls[i].status = "pending"}
Failed(calls) == {i \in 1..Len(calls) : calls[i].status = "failed"}
CountOp(op) == Cardinality({i \in 1..Len(monday_calls) : monday_calls[i].op = op})
GroupKeys(b) == {b.groups[i].key : i \in 1..Len(b.groups)}

\* C1: the board-platform calls of create_board_from_data are issued in the
\* order create-board, one create-group per Group in Board order,
\* create-column, batch; each only after the one before it has returned, so
\* that at most one call is outstanding at any time.
C1_StrictCallOrder ==
    LET mc == monday_calls
        n == Len(mc)
    IN  /\ \A i \in 1..n : i < n => mc[i].status = "returned"
        /\ Cardinality(Pending(mc)) + Cardinality(Pending(writer_calls)) <= 1
        /\ n >= 1 => mc[1].op = "create_board"
        /\ \A i \in 2..n :
             /\ mc[i].op # "create_board"
             /\ mc[i].op = "create_group" =>
                    mc[i].group = i - 1 /\ mc[i - 1].op \in {"create_board", "create_group"}
             /\ mc[i].op = "create_column" =>
                    mc[i - 1].op \in {"create_board", "create_group"}
             /\ mc[i].op = "create_items" => mc[i - 1].op = "create_column"
        /\ board_data # <<>> =>
             \A i \in 2..n :
               /\ mc[i].op = "create_group" =>
                      /\ i - 1 <= Len(board.groups)
                      /\ mc[i].name = board.groups[i - 1].name
               /\ mc[i].op = "create_column" => i = Len(board.groups) + 2

\* C1 witness: a run that returned after board, two groups, column and batch
C1_Witness ==
    /\ outcome = "returned"
    /\ Len(monday_calls) = 5
    /\ monday_calls[2].op = "create_group" /\ monday_calls[3].op = "create_group"
    /\ monday_calls[5].op = "create_items"

\* C2: a create_board_from_data call that returns has issued exactly 1
\* create-board, G create-group, 1 create-column and 1 batch call, the batch
\* holds one sub-operation per item, and the value returned is the board id
\* the create-board call returned with a map whose keys are exactly the
\* Board's group keys, each mapped to the id a create-group call for a group
\* with that key returned.
C2_ReturnedCallsAndValue ==
    published # <<>> =>
        LET mc == monday_calls
            b == board
            p == published[1]
        IN  /\ CountOp("create_board") = 1
            /\ CountOp("create_group") = Len(b.groups)
            /\ CountOp("create_column") = 1
            /\ CountOp("create_items") = 1
            /\ \A i \in 1..Len(mc) :
                 /\ mc[i].op = "create_items" => Len(mc[i].subops) = Len(b.items)
                 /\ mc[i].op = "create_board" => p.board_id = mc[i].id
            /\ DOMAIN p.group_ids = GroupKeys(b)
            /\ \A k \in DOMAIN p.group_ids :
                 \E i \in 1..Len(mc) :
                   /\ mc[i].op = "create_group"
                   /\ mc[i].status = "returned"
                   /\ mc[i].id = p.group_ids[k]
                   /\ b.groups[mc[i].group].key = k

\* C2 witness: a returned publication of two groups with different keys and
\* two items
C2_Witness ==
    /\ published # <<>>
    /\ Len(board.groups) = 2
    /\ board.groups[1].key # board.groups[2].key
    /\ Len(board.items) = 2
    /\ board.items[1].group_key # board.items[2].group_key

\* C3: when a board-platform call fails it is the last call ever issued (not
\* reissued, no later step, no compensating call), and the failure reaches
\* the caller with nothing returned.
C3_FailureStopsPublication ==
    \A i \in Failed(monday_calls) :
        /\ i = Len(monday_calls)
        /\ \A j \in 1..Len(monday_calls) :
             monday_calls[j].op \in {"create_board", "create_group", "create_column",
                                     "create_items"}
        /\ \A j \in 1..(i - 1) : monday_calls[j].status = "returned"
        /\ outcome = "MondayError"
        /\ pc = "done"
        /\ published = <<>>
        /\ ret = <<>>

\* C3 witness: the second create-group call failed, after board and first
\* group were created
C3_Witness ==
    /\ Len(monday_calls) = 3
    /\ monday_calls[3].op = "create_group"
    /\ monday_calls[3].status = "failed"
    /\ outcome = "MondayError"

\* C4: in a run started through an entry point no board-platform call is
\* issued before every completion call has returned and the Board is
\* validated; a missing file, a failed completion call or a failed validation
\* ends the run with zero board-platform calls and nothing returned; no
\* completion call follows the first board-platform call; on success the
\* entry point returns the pair create_board_from_data returned.
C4_State ==
    /\ monday_calls # <<>> =>
         /\ writer_calls # <<>>
         /\ \A i \in 1..Len(writer_calls) : writer_calls[i].status = "returned"
         /\ outcome = "running" => board_data # <<>>
         /\ file_exists
    /\ (~file_exists \/ Failed(writer_calls) # {}
        \/ outcome \in {"FileNotFoundError", "WriterError", "ValidationError"}) =>
         /\ monday_calls = <<>>
         /\ published = <<>>
         /\ ret = <<>>
         /\ outcome # "returned"
    /\ (~file_exists /\ pc = "done") => outcome = "FileNotFoundError"
    /\ outcome = "returned" => ret # <<>> /\ ret = published

C4_Step ==
    /\ monday_calls # <<>> => writer_calls' = writer_calls
    /\ (pc = "validate" /\ ~BoardData(result[1]).ok) =>
         outcome' = "ValidationError" /\ monday_calls' = <<>>
    /\ monday_calls' # monday_calls => board_data # <<>>

C4_ExtractBeforePublish == [](C4_State) /\ [][C4_Step]_vars

\* C4 witness: a run from a CSV file, chunked into two completion calls, that
\* returned
C4_Witness ==
    /\ entry = "run_from_csv"
    /\ outcome = "returned"
    /\ Len(writer_calls) = 2
    /\ ret # <<>>

\* a completion response that makes the call fail
WriterFailure(resp) ==
    \/ ~resp.transport_ok
    \/ resp.status_code # 200
    \/ resp.choices \in {"missing", "empty"}
    \/ ~resp.content_is_json

\* C5: in the chunked path completion calls are issued one per chunk in chunk
\* order, and a failing call for chunk k (non-200 status, missing or empty
\* choices, content that is not JSON) is the last one issued: it is not
\* retried, no later chunk is called, nothing is merged into a Board, and
\* extract_from_text raises.
C5_State ==
    /\ pc \in {"chunk_loop", "chunk_call", "validate"} /\ chunks # <<>> =>
         /\ Len(writer_calls) <= Len(chunks)
         /\ \A i \in 1..Len(writer_calls) :
              writer_calls[i].prompt.input = chunks[i]
         /\ Len(results) = Len(writer_calls) - Cardinality(Pending(writer_calls))
    /\ \A i \in Failed(writer_calls) :
         /\ i = Len(writer_calls)
         /\ \A j \in 1..(i - 1) : writer_calls[j].status = "returned"
         /\ outcome = "WriterError"
         /\ pc = "done"
         /\ result = <<>>
         /\ board_data = <<>>
         /\ ret = <<>>

C5_Step ==
    (pc = "chunk_call" /\ response' # <<>> /\ WriterFailure(response'[1])) =>
        /\ Len(writer_calls') = Len(writer_calls)
        /\ writer_calls'[Len(writer_calls')].status = "failed"
        /\ outcome' = "WriterError"
        /\ board_data' = <<>>

C5_ChunkFailureAborts == [](C5_State) /\ [][C5_Step]_vars

\* C5 witness: the call for the second chunk failed after the first returned
C5_Witness ==
    /\ Len(writer_calls) = 2
    /\ writer_calls[1].prompt.partial_note
    /\ writer_calls[1].status = "returned"
    /\ writer_calls[2].status = "failed"
    /\ response # <<>>
    /\ outcome = "WriterError"

\* C6: extract_from_text takes the single path exactly when
\* len(text) // 4 <= max_units: one call on the whole text without the
\* partial-chunk note and no chunking; otherwise the text is chunked and
\* every chunk gets one call with the note.
C6_PathSelection ==
    LET est == Len(text) \div 4
        n == Len(writer_calls)
    IN  /\ est <= max_units =>
             /\ chunks = <<>>
             /\ n <= 1
             /\ \A i \in 1..n :
                  writer_calls[i].prompt = [input |-> text, partial_note |-> FALSE]
             /\ (result # <<>> \/ board_data # <<>>) => n = 1
        /\ est > max_units =>
             /\ \A i \in 1..n : writer_calls[i].prompt.partial_note
             /\ pc \in {"chunk_loop", "chunk_call", "validate", "extract_return"} =>
                  /\ chunks = _chunk_text(text, max_units)
                  /\ n <= Len(chunks)
                  /\ \A i \in 1..n : writer_calls[i].prompt.input = chunks[i]
             /\ (result # <<>> \/ board_data # <<>>) =>
                  n = Len(_chunk_text(text, max_units))

\* C6 witness: a text whose estimate equals the ceiling went through the
\* single call
C6_Witness ==
    /\ text # <<>>
    /\ Len(text) \div 4 = max_units
    /\ pc = "validate"
    /\ Len(writer_calls) = 1
    /\ ~writer_calls[1].prompt.partial_note

\* C7: whenever a text's estimated units exceed max_units the chunker
\* returns at least 2 chunks, whatever the line structure of the text.
C7_AtLeastTwoChunks ==
    (pc = "chunked" /\ Len(text) \div 4 > max_units) => Len(chunks) >= 2

\* all groups / all items of a sequence of chunk results, in chunk order
RECURSIVE AllGroups(_)
AllGroups(rs) == IF rs = <<>> THEN <<>> ELSE get_groups(Head(rs)) \o AllGroups(Tail(rs))

RECURSIVE AllItems(_)
AllItems(rs) == IF rs = <<>> THEN <<>> ELSE get_items(Head(rs)) \o AllItems(Tail(rs))

\* position of the first record of seq with this key
FirstIndex(seq, key) ==
    CHOOSE k \in 1..Len(seq) :
        seq[k].key = key /\ \A j \in 1..(k - 1) : seq[j].key # key

\* C8: the merged result holds one group per distinct key of the chunk
\* results, namely the first record with that key in chunk order, the groups
\* ordered by first occurrence; its items are all chunks' items in chunk
\* order, none dropped, duplicated or deduplicated.
C8_MergeFirstWins ==
    (pc = "validate" /\ results # <<>>) =>
        LET all == AllGroups(results)
            m == result[1].groups
        IN  /\ result[1].has_groups /\ result[1].has_items
            /\ \A i, j \in 1..Len(m) : i # j => m[i].key # m[j].key
            /\ {m[i].key : i \in 1..Len(m)} = {all[k].key : k \in 1..Len(all)}
            /\ \A i \in 1..Len(m) : m[i] = all[FirstIndex(all, m[i].key)]
            /\ \A i, j \in 1..Len(m) :
                 i < j => FirstIndex(all, m[i].key) < FirstIndex(all, m[j].key)
            /\ result[1].items = AllItems(results)

\* C8 witness: two chunks define key a as First and then as Second, each
\* with one item; the merge keeps First and both items
C8_Witness ==
    /\ pc = "validate"
    /\ Len(results) = 2
    /\ results[1].groups = <<[key |-> K_a, name |-> "First"]>>
    /\ results[2].groups = <<[key |-> K_a, name |-> "Second"]>>
    /\ Len(results[1].items) = 1 /\ Len(results[2].items) = 1
    /\ result[1].groups = <<[key |-> K_a, name |-> "First"]>>
    /\ Len(result[1].items) = 2

\* an item of the extraction result whose group_key, as given, is the stored
\* (lowercased) key of no group of the result
Dangling(r) ==
    \E j \in 1..Len(r.items) :
        \A i \in 1..Len(r.groups) : r.items[j].group_key # lower(r.groups[i].key)

\* C9: in every constructed Board each item's group_key, as given, is the
\* stored key of a group of the Board, and the Board holds every group and
\* item of the extraction result; a result with a dangling item makes the
\* construction raise and the run fail.
C9_State ==
    board_data # <<>> =>
        /\ \A j \in 1..Len(board.items) :
             \E i \in 1..Len(board.groups) :
               board.items[j].group_key = board.groups[i].key
        /\ pc = "extract_return" =>
             /\ board.items = result[1].items
             /\ Len(board.groups) = Len(result[1].groups)

C9_Step ==
    (pc = "validate" /\ Dangling(result[1])) =>
        /\ outcome' = "ValidationError"
        /\ board_data' = <<>>
        /\ pc' = "done"

C9_ItemGroupsResolve == [](C9_State) /\ [][C9_Step]_vars

\* C9 witness: a Board built from two merged chunks whose group key came in
\* upper case and whose item refers to the stored lower-case key
C9_Witness ==
    /\ pc = "extract_return"
    /\ Len(results) = 2
    /\ result[1].groups # <<>> /\ result[1].groups[1].key = K_A
    /\ board.items # <<>> /\ board.items[1].group_key = K_a

\* C10: no two groups of a Board returned by extract_from_text have the same
\* stored key.
C10_UniqueGroupKeys ==
    board_data # <<>> =>
        \A i, j \in 1..Len(board.groups) :
            i # j => board.groups[i].key # board.groups[j].key

\* the batch submitted by the create_items call in flight
Submitted == monday_calls[Len(monday_calls)].subops

\* C11: an item whose group_key is not in the map is left out without an
\* error and the batch is still submitted; the sub-operations of the other
\* items are exactly those they have under any map that also holds the
\* omitted keys.
C11_State ==
    pc = "create_items_wait" =>
        /\ outcome = "running"
        /\ monday_calls[Len(monday_calls)].op = "create_items"
        /\ monday_calls[Len(monday_calls)].status = "pending"
        /\ \A p \in 1..Len(Submitted) :
             board.items[Submitted[p].alias + 1].group_key \in DOMAIN group_ids
        /\ Len(Submitted) =
             Cardinality({j \in 1..Len(board.items) :
                            board.items[j].group_key \in DOMAIN group_ids})
        /\ \A m \in GroupIdMaps :
             (/\ DOMAIN group_ids \subseteq DOMAIN m
              /\ \A k \in DOMAIN group_ids : m[k] = group_ids[k])
             => LET full == build_batch(board_id[1], board.items, m)
                    Keep(op) == board.items[op.alias + 1].group_key \in DOMAIN group_ids
                IN  Submitted = SelectSeq(full, Keep)

C11_Step ==
    pc = "create_items" =>
        /\ pc' = "create_items_wait"
        /\ outcome' = "running"
        /\ Len(monday_calls') = Len(monday_calls) + 1

C11_SkipLeavesOthers == [](C11_State) /\ [][C11_Step]_vars

\* C11 witness: three items, the middle one's group missing from the map,
\* the batch submitted with the two others
C11_Witness ==
    /\ entry = "create_items_batch"
    /\ pc = "create_items_wait"
    /\ Len(board.items) = 3
    /\ board.items[1].group_key \in DOMAIN group_ids
    /\ board.items[2].group_key \notin DOMAIN group_ids
    /\ board.items[3].group_key \in DOMAIN group_ids
    /\ Len(Submitted) = 2

\* C12: the sub-operation of the item at 0-based position i has alias i and
\* the remote group id the map gives for that item's group_key;
\* sub-operations are in item order with pairwise distinct aliases; a skipped
\* item's number is used by no sub-operation.
C12_AliasNumbering ==
    pc = "create_items_wait" =>
        LET ops == Submitted
            items == board.items
        IN  /\ \A p \in 1..Len(ops) :
                 /\ ops[p].alias \in 0..(Len(items) - 1)
                 /\ items[ops[p].alias + 1].group_key \in DOMAIN group_ids
                 /\ ops[p].group_id = group_ids[items[ops[p].alias + 1].group_key]
                 /\ ops[p].item_name = escape_item_name(items[ops[p].alias + 1].name)
                 /\ ops[p].board_id = board_id[1]
            /\ \A p, q \in 1..Len(ops) : p < q => ops[p].alias < ops[q].alias
            /\ {ops[p].alias : p \in 1..Len(ops)} =
                 {j - 1 : j \in {i \in 1..Len(items) :
                                   items[i].group_key \in DOMAIN group_ids}}

\* C12 witness: the first of three items is skipped, the batch carries
\* item_1 and item_2
C12_Witness ==
    /\ entry = "create_items_batch"
    /\ pc = "create_items_wait"
    /\ Len(board.items) = 3
    /\ board.items[1].group_key \notin DOMAIN group_ids
    /\ Len(Submitted) = 2
    /\ Submitted[1].alias = 1
    /\ Submitted[2].alias = 2

\* position of the first occurrence of a token in a text
IndexOf(t, tok) == CHOOSE i \in 1..Len(t) : t[i] = tok /\ \A j \in 1..(i - 1) : t[j] # tok

\* the platform's reading of a string literal whose first character is at
\* position p: a backslash escapes the quote or backslash after it, an
\* unescaped quote closes the literal
RECURSIVE DecodeLiteral(_, _, _)
DecodeLiteral(t, p, acc) ==
    IF p > Len(t) THEN [ok |-> FALSE, value |-> acc, close |-> p]
    ELSE IF t[p] = "\"" THEN [ok |-> TRUE, value |-> acc, close |-> p]
    ELSE IF t[p] = "\\"
         THEN IF p + 1 <= Len(t) /\ t[p + 1] \in {"\"", "\\"}
              THEN DecodeLiteral(t, p + 2, Append(acc, t[p + 1]))
              ELSE [ok |-> FALSE, value |-> acc, close |-> p]
    ELSE DecodeLiteral(t, p + 1, Append(acc, t[p]))

\* the round trip of one sub-operation built for an item
RoundTrip(op, item) ==
    LET t == sub_operation_text(op)
        open1 == IndexOf(t, "item_name") + 2
        d1 == DecodeLiteral(t, open1 + 1, <<>>)
        open2 == d1.close + 4
        d2 == DecodeLiteral(t, open2 + 1, <<>>)
    IN  /\ d1.ok
        /\ d1.value = item.name
        /\ d1.close = open1 + Len(op.item_name) + 1
        /\ SubSeq(t, d1.close + 1, open2) = <<",", "column_values", ":", "\"">>
        /\ d2.ok
        /\ d2.close = open2 + Len(op.column_values) + 1
        /\ d2.close = Len(t) - 4
        /\ d2.value = json_dumps_column_values(item.start_date, item.end_date)
        /\ d2.value[IndexOf(d2.value, "from") + 5] = item.start_date
        /\ d2.value[IndexOf(d2.value, "to") + 5] = item.end_date

\* C13: for every item of a submitted batch the item_name and column_values
\* literals of its sub-operation decode to the item's name and to the JSON
\* text with its dates, each literal ending at its own closing quote.
C13_EscapingRoundTrip ==
    pc = "create_items_wait" =>
        \A p \in 1..Len(Submitted) :
            RoundTrip(Submitted[p], board.items[Submitted[p].alias + 1])

\* characters a stored key may hold according to the invariant
KeyCharOk(c) == c \in Alnum \cup {"_"}

\* C14: a constructed Group's stored key is non-empty, equal to its own
\* lowercase form, made only of alphanumeric characters and underscores, and
\* is the lowercased input; construction fails for an empty key and for a key
\* holding any other character.
C14_KeyInvariant ==
    (entry = "Group" /\ pc = "done") =>
        LET raw == result[1].key
        IN  /\ outcome = "returned" =>
                 /\ ret[1].key # <<>>
                 /\ lower(ret[1].key) = ret[1].key
                 /\ \A i \in 1..Len(ret[1].key) : KeyCharOk(ret[1].key[i])
                 /\ ret[1].key = lower(raw)
            /\ (raw = <<>> \/ \E i \in 1..Len(raw) : ~KeyCharOk(raw[i]))
                 => outcome = "ValidationError"

\* positions at which a board-platform call is awaiting its response
MondayWaits ==
    {"create_board_wait", "create_group_wait", "create_column_wait", "create_items_wait"}

\* C15: a board-platform response with a non-empty errors field makes the
\* call raise, whatever its HTTP status and whether or not it has data: the
\* call is recorded failed with no id, nothing is returned, and no later call
\* is issued.
C15_Step ==
    /\ (pc \in MondayWaits /\ response'[1].errors = "nonempty") =>
          /\ outcome' = "MondayError"
          /\ pc' = "done"
          /\ Len(monday_calls') = Len(monday_calls)
          /\ monday_calls'[Len(monday_calls')].status = "failed"
          /\ monday_calls'[Len(monday_calls')].id = NoId
          /\ board_id' \in {<<>>, board_id}
          /\ group_ids' \in {<<>>, group_ids}
          /\ published' = published
          /\ ret' = <<>>
    /\ outcome = "MondayError" => monday_calls' = monday_calls

C15_ErrorsAlwaysRaise == [][C15_Step]_vars

\* C15 witness: a create_group response with HTTP status 200, a data member
\* holding an id and a non-empty errors member has failed the run
C15_Witness ==
    /\ outcome = "MondayError"
    /\ response # <<>>
    /\ response[1].transport_ok /\ response[1].is_json
    /\ response[1].status_code = 200
    /\ response[1].data = "with_id"
    /\ response[1].errors = "nonempty"
    /\ monday_calls[Len(monday_calls)].op = "create_group"
    /\ monday_calls[Len(monday_calls)].status = "failed"

\* C16: when either credential is absent or empty the construction fails
\* before any client exists, and no completion-service or board-platform call
\* is ever issued; no phase of a run starts before both clients exist.
C16_CredentialsFirst ==
    /\ (WRITER_API_KEY = "" \/ MONDAY_API_KEY = "") =>
          /\ clients = {}
          /\ writer_calls = <<>>
          /\ monday_calls = <<>>
          /\ pc \in {"__init__", "done"}
          /\ pc = "done" => (outcome = "ValueError" /\ ret = <<>>)
    /\ (pc \notin {"__init__", "done"} \/ writer_calls # <<>> \/ monday_calls # <<>>) =>
          clients = {"WriterClient", "MondayClient"}

\* C16 witness: the completion-service key is set, the board-platform key is
\* absent, and the construction has failed
C16_Witness ==
    /\ env.WRITER_API_KEY = <<"w">>
    /\ env.MONDAY_API_KEY = <<>>
    /\ pc = "done"
    /\ outcome = "ValueError"
    /\ clients = {}

\* the lines of a chunk
LinesOf(chunk) == split(chunk, NL)

RECURSIVE ConcatLines(_)
ConcatLines(cs) == IF cs = <<>> THEN <<>> ELSE LinesOf(Head(cs)) \o ConcatLines(Tail(cs))

\* C18: the chunks joined with a newline in chunk order are the stripped
\* input text, and the lines of the chunks, in order, are exactly the lines of
\* the stripped text, each whole and in one chunk; there is at least one
\* chunk and none is without a line.
C18_Reassembly ==
    pc = "chunked" =>
        /\ chunks # <<>>
        /\ join(NL, chunks) = strip(text)
        /\ ConcatLines(chunks) = split(strip(text), NL)

\* C18 witness: a padded text whose second line is longer than
\* max_chunk_size comes back as two chunks, the long line whole
C18_Witness ==
    /\ pc = "chunked"
    /\ max_units = 1
    /\ text = <<SP, "a", NL, "a", "a", "a", "a", NL>>
    /\ chunks = << <<"a">>, <<"a", "a", "a", "a">> >>

\* C19: every invocation of create_items_batch issues exactly one request,
\* also when the batch has no sub-operation (no items, or every item
\* skipped), the mutation then having an empty body; in
\* create_board_from_data the batch call follows the column call, and the
\* outcome of the batch call decides the outcome of the publication.
C19_State ==
    /\ CountOp("create_items") <= 1
    /\ pc = "create_items_wait" =>
          /\ monday_calls[Len(monday_calls)].op = "create_items"
          /\ (\A j \in 1..Len(board.items) :
                 board.items[j].group_key \notin DOMAIN group_ids)
               => Submitted = <<>>
          /\ entry # "create_items_batch" =>
               /\ monday_calls[Len(monday_calls) - 1].op = "create_column"
               /\ monday_calls[Len(monday_calls) - 1].status = "returned"
    /\ published # <<>> =>
          /\ CountOp("create_items") = 1
          /\ monday_calls[Len(monday_calls)].op = "create_items"
          /\ monday_calls[Len(monday_calls)].status = "returned"

C19_Step ==
    /\ pc = "create_items" =>
          /\ pc' = "create_items_wait"
          /\ monday_calls' = Append(monday_calls, monday_calls'[Len(monday_calls')])
          /\ monday_calls'[Len(monday_calls')].op = "create_items"
          /\ monday_calls'[Len(monday_calls')].status = "pending"
    /\ (pc = "create_items_wait" /\ response'[1].errors # "absent") =>
          /\ outcome' = "MondayError"
          /\ published' = <<>>
          /\ ret' = <<>>

C19_BatchAlwaysSubmitted == [](C19_State) /\ [][C19_Step]_vars

\* C19 witness: a pipeline run whose Board has no items has issued the batch
\* call, its body empty, right after the column call returned
C19_Witness ==
    /\ entry = "run_from_text"
    /\ pc = "create_items_wait"
    /\ board.items = <<>>
    /\ Submitted = <<>>
    /\ monday_calls[Len(monday_calls)].op = "create_items"
    /\ monday_calls[Len(monday_calls) - 1].op = "create_column"

=============================================================================
